---- MODULE Spec2Model ----
(***************************************************************************)
(* agent-memory: the Memory engine (sdk.py) over its persisted state, the  *)
(* JSONL record log, the JSONL vector index and the configuration          *)
(* document, together with the embedding provider it calls.                *)
(*                                                                         *)
(* Strings are sequences of Unicode code points, so that sorting,          *)
(* tokenizing and the JSON-lines serialisation work on what the code       *)
(* works on.  An optional value is a sequence of length 0 (None, or a file *)
(* that does not exist) or 1.  Every method of Memory is an operator from  *)
(* the persisted store, the instance and the arguments to the store it     *)
(* leaves and the value it returns or the exception it raises; the actions *)
(* apply these operators.                                                  *)
(***************************************************************************)
EXTENDS Integers, Sequences, FiniteSets, TLC

\* ------------------------------------------------------------------ bounds

\* most lines the log file holds (add is not taken beyond it)
MaxLog == 2
\* most lines the vector file holds (add does not embed beyond it)
MaxVec == 2
\* ids are drawn from 1..MaxId (the truncated uuid4 draws)
MaxId == 2
\* the clock takes the values 0..MaxClock
MaxClock == 2
\* limits passed to list and search range over 0..MaxLimit
MaxLimit == 2

\* ----------------------------------------------------------------- helpers

None == << >>

Some(x) == << x >>

Min(a, b) == IF a < b THEN a ELSE b

Max(a, b) == IF a > b THEN a ELSE b

Range(s) == { s[i] : i \in DOMAIN s }

\* s without the elements that do not satisfy Keep (a list comprehension)
RECURSIVE SelectIdx(_, _)
SelectIdx(s, keep) ==
    IF s = << >> THEN << >>
    ELSE (IF keep[1] THEN << Head(s) >> ELSE << >>)
         \o SelectIdx(Tail(s), Tail(keep))

\* Python's s[-n:] : the last n elements for 0 < n < len(s), and the whole
\* of s for n = 0 (-0 is 0, so the slice is s[0:]) and for n >= len(s)
TailSlice(s, n) ==
    IF n = 0 \/ n >= Len(s) THEN s
    ELSE SubSeq(s, Len(s) - n + 1, Len(s))

\* Python's s[:n] for n >= 0
HeadSlice(s, n) == SubSeq(s, 1, Min(n, Len(s)))

\* a list comprehension: the list of the values of f, all computed when the
\* list is built
ListOf(f) == SubSeq(f, 1, Len(f))

\* ----------------------------------------------------------------- strings

\* str comparison: lexicographic on code points
RECURSIVE StrLess(_, _)
StrLess(a, b) ==
    IF b = << >> THEN FALSE
    ELSE IF a = << >> THEN TRUE
    ELSE IF a[1] # b[1] THEN a[1] < b[1]
    ELSE StrLess(Tail(a), Tail(b))

\* sorted(set_of_strings)
RECURSIVE SortedStrs(_)
SortedStrs(S) ==
    IF S = {} THEN << >>
    ELSE LET m == CHOOSE x \in S : \A y \in S \ {x} : StrLess(x, y)
         IN  << m >> \o SortedStrs(S \ {m})

IsSortedNoDup(tags) ==
    \A i \in 1..(Len(tags) - 1) : StrLess(tags[i], tags[i + 1])

\* json.dumps(..., ensure_ascii=False) of a string: the quote, the backslash
\* and the control characters below U+0020 are written as escapes, every
\* other character is written as it is
JsonEscape(s) ==
    [i \in 1..Len(s) |-> [c |-> s[i], esc |-> (s[i] < 32 \/ s[i] \in {34, 92})]]

\* json.loads of a string literal
JsonUnescape(t) == [i \in 1..Len(t) |-> t[i].c]

\* the characters str.splitlines() breaks a line at
LineBoundaries == {10, 11, 12, 13, 28, 29, 30, 133, 8232, 8233}

\* ------------------------------------------------------------ input domains

\* the arguments of add that are tried: the defaults; an unsorted tags list
\* with a repeated entry, metadata and an importance above the range; an
\* importance below the range; a text that ends in U+2028 (LINE SEPARATOR).
\* The texts are "a", "B a", "a<U+2028>", the tags "a", "b"
AddArgs ==
    { [text |-> <<97>>, tags |-> << >>, metadata |-> << >>, importance |-> 3],
      [text |-> <<66, 32, 97>>, tags |-> << <<98>>, <<97>>, <<97>> >>,
       metadata |-> << << <<97>>, <<98>> >> >>, importance |-> 10],
      [text |-> <<97>>, tags |-> << <<97>> >>, metadata |-> << >>,
       importance |-> 0 - 1],
      [text |-> <<97, 8232>>, tags |-> << >>, metadata |-> << >>, importance |-> 3] }

\* add with the defaults only, texts "a" and "b"
PlainArgs ==
    { [text |-> <<97>>, tags |-> << >>, metadata |-> << >>, importance |-> 3],
      [text |-> <<98>>, tags |-> << >>, metadata |-> << >>, importance |-> 3] }

\* add with the text "a" and the importance 5 or 1, or the text "b"
RankArgs ==
    { [text |-> <<97>>, tags |-> << >>, metadata |-> << >>, importance |-> 5],
      [text |-> <<97>>, tags |-> << >>, metadata |-> << >>, importance |-> 1],
      [text |-> <<98>>, tags |-> << >>, metadata |-> << >>, importance |-> 3] }

\* embedding vectors the provider answers with for a text
Vectors == { <<1, 0>>, <<0 - 1, 0>> }

\* Memory instances, each its merged configuration (DEFAULT_CONFIG with the
\* caller's overrides): embedding = endpoint and credential both non-empty,
\* time_decay_lambda in thousandths.  The defaults, and an instance with a
\* provider, max_results = 1 and the decay switched off
Instances ==
    { [embedding |-> FALSE, max_results |-> 10, time_decay_lambda |-> 10],
      [embedding |-> TRUE,  max_results |-> 1,  time_decay_lambda |-> 0] }

\* instances that search a store with the decay switched off, with the
\* default time_decay_lambda = 0.01 and with time_decay_lambda = 1000
RankInstances ==
    { [embedding |-> FALSE, max_results |-> 10, time_decay_lambda |-> l] :
        l \in { 0, 10, 1000000 } }

\* what get_embeddings gives for k texts: None (not ok), or the vectors of
\* the response in index order, as many as the provider sent (0..k)
Responses(k) ==
    { [ok |-> FALSE, data |-> << >>] }
    \cup { [ok |-> TRUE, data |-> d] :
             d \in UNION { [1..m -> Vectors] : m \in 0..k } }

\* get_embeddings returning None: no provider configured, or the call failed
NoEmbeddings == [ok |-> FALSE, data |-> << >>]

\* ------------------------------------------------------------------- state

VARIABLES
    store,  \* the persisted store: dir (the store directory exists),
            \* config (config.json), memories (memories.jsonl: the written
            \* lines), vectors (vectors.jsonl: [id, vector] lines); each
            \* file None while it does not exist
    now,    \* the clock, in days
    last,   \* the last call that changed the store: op, its arguments, ret
    pc,     \* of each process: "idle", "loaded" (between _load_all and
            \* _save_all of a delete, tag or clear) or "writing" (inside
            \* _save_all, memories.jsonl open for writing)
    local   \* of each process, the locals of its rewriting call: op, args,
            \* ret, read (the lines _load_all read), write (the lines
            \* _save_all is to write), written (how many lines have reached
            \* the file), old (the lines that were in the file when
            \* _save_all opened it) and lost (the lines among old that the
            \* call never read and did not ask to change; added: no record
            \* with that id was read)

vars == << store, now, last, pc, local >>

Ok(v) == [exc |-> "none", val |-> v]

Raise(e) == [exc |-> e, val |-> None]

\* what an operation leaves and gives
Result(s, r) == [s |-> s, ret |-> r]

\* --------------------------------------------------------------- record log

\* json.dumps(entry, ensure_ascii=False): one written line
dumps(e) ==
    [id |-> e.id, timestamp |-> e.timestamp,
     text |-> JsonEscape(e.text),
     tags |-> [i \in 1..Len(e.tags) |-> JsonEscape(e.tags[i])],
     metadata |-> [i \in 1..Len(e.metadata) |->
                     << JsonEscape(e.metadata[i][1]), JsonEscape(e.metadata[i][2]) >>],
     importance |-> e.importance]

\* json.loads of a line that holds one whole document
loads(l) ==
    [id |-> l.id, timestamp |-> l.timestamp,
     text |-> JsonUnescape(l.text),
     tags |-> [i \in 1..Len(l.tags) |-> JsonUnescape(l.tags[i])],
     metadata |-> [i \in 1..Len(l.metadata) |->
                     << JsonUnescape(l.metadata[i][1]), JsonUnescape(l.metadata[i][2]) >>],
     importance |-> l.importance]

\* the string literals of a written line
LineStrings(l) ==
    {l.text} \cup Range(l.tags)
    \cup { l.metadata[i][1] : i \in 1..Len(l.metadata) }
    \cup { l.metadata[i][2] : i \in 1..Len(l.metadata) }

\* read_text().splitlines() cuts the written line in two inside a string
\* literal: a line boundary character that was written unescaped
splits(l) ==
    \E t \in LineStrings(l) : \E i \in 1..Len(t) :
        ~t[i].esc /\ t[i].c \in LineBoundaries

\* _ensure_store without its is_dir() check
ensure_store_unchecked(s) == TRUE

\* Memory._ensure_store: the store directory is there
ensure_store(s) == s.dir

\* Memory._load_all: every non-blank line parsed; a piece of a cut line is
\* no JSON document and json.loads raises
load_all(s) ==
    IF ~ensure_store(s) THEN Raise("FileNotFoundError")
    ELSE IF s.memories = None THEN Ok(<< >>)
    ELSE IF \E i \in 1..Len(s.memories[1]) : splits(s.memories[1][i])
         THEN Raise("JSONDecodeError")
    ELSE Ok(ListOf([i \in 1..Len(s.memories[1]) |-> loads(s.memories[1][i])]))

\* _save_all writing the entries last first
save_all_reversed(entries) ==
    Some([i \in 1..Len(entries) |-> dumps(entries[Len(entries) + 1 - i])])

\* Memory._save_all: the file is opened "w" and every entry written
save_all(entries) == Some([i \in 1..Len(entries) |-> dumps(entries[i])])

\* open(path, "a") and one write
append_line(file, l) == IF file = None THEN Some(<< l >>) ELSE Some(Append(file[1], l))

\* ------------------------------------------------------------- vector index

\* the index taken as enabled whatever the configuration
enabled_always(self) == TRUE

\* VectorStore.enabled
enabled(self) == self.embedding

\* VectorStore._append_vector
append_vector(file, id, vector) == append_line(file, [id |-> id, vector |-> vector])

\* the dict built from lines: a key stays where it was first inserted and
\* takes the value assigned last
RECURSIVE DictOf(_)
DictOf(lines) ==
    IF lines = << >> THEN << >>
    ELSE LET n == Len(lines)
             d == DictOf(SubSeq(lines, 1, n - 1))
             x == lines[n]
         IN  IF \E i \in 1..Len(d) : d[i].id = x.id
             THEN [i \in 1..Len(d) |-> IF d[i].id = x.id THEN x ELSE d[i]]
             ELSE Append(d, x)

\* VectorStore._load_vectors: the id -> vector mapping, in dict order
load_vectors(s) == IF s.vectors = None THEN << >> ELSE DictOf(s.vectors[1])

\* vectors.get(id): Some(vector) or None
VectorOf(vectors, id) ==
    IF \E i \in 1..Len(vectors) : vectors[i].id = id
    THEN Some((CHOOSE x \in Range(vectors) : x.id = id).vector)
    ELSE None

\* VectorStore.delete: the file after it
vectors_delete(s, id) ==
    LET vectors == load_vectors(s) IN
    IF \E i \in 1..Len(vectors) : vectors[i].id = id
    THEN Some(SelectIdx(vectors, [i \in 1..Len(vectors) |-> vectors[i].id # id]))
    ELSE s.vectors

\* ---------------------------------------------------------------- operations

\* the file written whether or not it exists
init_file_overwrite(file, content) == Some(content)

\* path.touch() / write_text, done only on a path that does not exist yet
init_file(file, content) == IF file = None THEN Some(content) ELSE file

\* Memory.init
init(s, self) ==
    Result([dir |-> TRUE,
            config |-> init_file(s.config, self),
            memories |-> init_file(s.memories, << >>),
            vectors |-> s.vectors],
           Ok(None))

\* the importance stored as it is given
clamp_none(importance) == importance

\* importance = max(1, min(5, int(importance)))
clamp(importance) == Max(1, Min(5, importance))

\* Memory.add; uuid is the truncated uuid4 draw, t the clock, response the
\* provider's answer to the embedding request of an enabled instance
add(s, self, text, tags, metadata, importance, uuid, t, response) ==
    IF ~ensure_store(s) THEN Result(s, Raise("FileNotFoundError"))
    ELSE
    LET entry == [id |-> uuid, timestamp |-> t, text |-> text,
                  tags |-> tags, metadata |-> metadata,
                  importance |-> clamp(importance)]
        s1 == [s EXCEPT !.memories = append_line(s.memories, dumps(entry))]
    IN  IF enabled(self) /\ response.ok
        THEN IF response.data = << >>
             THEN Result(s1, Raise("IndexError"))
             ELSE Result([s1 EXCEPT !.vectors =
                             append_vector(s.vectors, uuid, response.data[1])],
                         Ok(entry))
        ELSE Result(s1, Ok(entry))

\* Memory.list
list(s, self, limit) ==
    LET l == load_all(s) IN
    IF l.exc # "none" THEN Result(s, l)
    ELSE Result(s, Ok(TailSlice(l.val, limit)))

\* get creating the store it does not find
get_creating(s, self, memory_id) == init(s, self)

\* Memory.get: Some(the first entry with the id) or None
get(s, self, memory_id) ==
    LET l == load_all(s) IN
    IF l.exc # "none" THEN Result(s, l)
    ELSE IF \E i \in 1..Len(l.val) : l.val[i].id = memory_id
    THEN Result(s, Ok(Some(l.val[CHOOSE i \in 1..Len(l.val) :
                              /\ l.val[i].id = memory_id
                              /\ \A j \in 1..(i - 1) : l.val[j].id # memory_id])))
    ELSE Result(s, Ok(None))

\* Memory.count
count(s, self) ==
    LET l == load_all(s) IN
    IF l.exc # "none" THEN Result(s, l) ELSE Result(s, Ok(Len(l.val)))

\* Memory.clear
clear(s, self) ==
    LET l == load_all(s) IN
    IF l.exc # "none" THEN Result(s, l)
    ELSE Result([s EXCEPT !.memories = save_all(<< >>)], Ok(Len(l.val)))

\* Memory.delete
delete(s, self, memory_id) ==
    LET l == load_all(s) IN
    IF l.exc # "none" THEN Result(s, l)
    ELSE
    LET new == SelectIdx(l.val, [i \in 1..Len(l.val) |-> l.val[i].id # memory_id])
    IN  IF Len(new) = Len(l.val) THEN Result(s, Ok(FALSE))
        ELSE Result([s EXCEPT !.memories = save_all(new),
                              !.vectors = IF enabled(self)
                                          THEN vectors_delete(s, memory_id)
                                          ELSE s.vectors],
                    Ok(TRUE))

\* the tags tag() leaves: sorted(set(old) | set(add) - set(remove))
new_tags(old, add_, remove) == SortedStrs((Range(old) \cup Range(add_)) \ Range(remove))

\* Memory.tag: the first entry with the id gets the new tags
tag(s, self, memory_id, add_, remove) ==
    LET l == load_all(s) IN
    IF l.exc # "none" THEN Result(s, l)
    ELSE IF ~\E i \in 1..Len(l.val) : l.val[i].id = memory_id
    THEN Result(s, Ok(None))
    ELSE
    LET k == CHOOSE i \in 1..Len(l.val) :
                /\ l.val[i].id = memory_id
                /\ \A j \in 1..(i - 1) : l.val[j].id # memory_id
        found == [l.val[k] EXCEPT !.tags = new_tags(l.val[k].tags, add_, remove)]
        entries == [l.val EXCEPT ![k] = found]
    IN  Result([s EXCEPT !.memories = save_all(entries)], Ok(Some(found)))

\* ", ".join(strs) and " ".join(strs)
RECURSIVE Join(_, _)
Join(strs, sep) ==
    IF strs = << >> THEN << >>
    ELSE IF Len(strs) = 1 THEN strs[1]
    ELSE strs[1] \o sep \o Join(Tail(strs), sep)

\* Memory.export: the JSON array of the documents, or the Markdown lines
export(s, self, fmt) ==
    LET l == load_all(s)
        f == IF fmt = "none" THEN "md" ELSE fmt
    IN
    IF l.exc # "none" THEN Result(s, l)
    ELSE IF f = "json"
    THEN Result(s, Ok([fmt |-> "json",
                       doc |-> [i \in 1..Len(l.val) |-> dumps(l.val[i])]]))
    ELSE Result(s, Ok([fmt |-> "md",
                       doc |-> [i \in 1..Len(l.val) |->
                                  [heading |-> << l.val[i].id, l.val[i].timestamp >>,
                                   tags |-> Join(l.val[i].tags, <<44, 32>>),
                                   text |-> l.val[i].text]]]))

\* VectorStore.embed_batch: the file after it and the count it returns;
\* zip() pairs the items with as many vectors as the response holds
embed_batch(file, items, response) ==
    IF items = << >> THEN [file |-> file, n |-> 0]
    ELSE IF ~response.ok THEN [file |-> file, n |-> 0]
    ELSE LET m == Min(Len(items), Len(response.data))
             old == IF file = None THEN << >> ELSE file[1]
         IN  [file |-> IF m = 0 THEN file
                       ELSE Some(old \o [i \in 1..m |->
                                           [id |-> items[i].id,
                                            vector |-> response.data[i]]]),
              n |-> Len(items)]

\* the loop of VectorStore.rebuild from batch number b on
RECURSIVE rebuild_from(_, _, _, _, _, _)
rebuild_from(file, entries, batch_size, responses, b, total) ==
    IF (b - 1) * batch_size >= Len(entries) THEN [file |-> file, n |-> total]
    ELSE LET lo == (b - 1) * batch_size + 1
             hi == Min(b * batch_size, Len(entries))
             batch == [i \in 1..(hi - lo + 1) |->
                         [id |-> entries[lo + i - 1].id,
                          text |-> entries[lo + i - 1].text]]
             r == embed_batch(file, batch, responses[b])
         IN  rebuild_from(r.file, entries, batch_size, responses, b + 1, total + r.n)

\* the calls of get_embeddings that embed_batch(items) makes, each the
\* list of texts it submits: none for no items, else one
embed_batch_calls(items) ==
    IF items = << >> THEN << >>
    ELSE << [i \in 1..Len(items) |-> items[i].text] >>

\* the loop of rebuild left at the first batch that fails
RECURSIVE rebuild_calls_stop(_, _, _, _)
rebuild_calls_stop(entries, batch_size, responses, b) ==
    IF (b - 1) * batch_size >= Len(entries) THEN << >>
    ELSE LET lo == (b - 1) * batch_size + 1
             hi == Min(b * batch_size, Len(entries))
             batch == [i \in 1..(hi - lo + 1) |->
                         [id |-> entries[lo + i - 1].id,
                          text |-> entries[lo + i - 1].text]]
         IN  IF ~responses[b].ok THEN embed_batch_calls(batch)
             ELSE embed_batch_calls(batch)
                  \o rebuild_calls_stop(entries, batch_size, responses, b + 1)

\* the calls of get_embeddings that the loop of VectorStore.rebuild makes
\* from batch number b on, in order; responses[b] is the answer to batch b
RECURSIVE rebuild_calls(_, _, _, _)
rebuild_calls(entries, batch_size, responses, b) ==
    IF (b - 1) * batch_size >= Len(entries) THEN << >>
    ELSE LET lo == (b - 1) * batch_size + 1
             hi == Min(b * batch_size, Len(entries))
             batch == [i \in 1..(hi - lo + 1) |->
                         [id |-> entries[lo + i - 1].id,
                          text |-> entries[lo + i - 1].text]]
         IN  embed_batch_calls(batch)
             \o rebuild_calls(entries, batch_size, responses, b + 1)

\* number of batches of range(0, n, batch_size)
NumBatches(n, batch_size) == (n + batch_size - 1) \div batch_size

\* Memory.rebuild_vectors; responses[b] is the provider's answer to batch b
\* (get_embeddings gives None to an instance without provider)
rebuild_vectors(s, self, batch_size, responses) ==
    LET l == load_all(s) IN
    IF l.exc # "none" THEN Result(s, l)
    ELSE LET rs == [b \in 1..NumBatches(Len(l.val), batch_size) |->
                      IF enabled(self) THEN responses[b] ELSE NoEmbeddings]
             r == rebuild_from(Some(<< >>), l.val, batch_size, rs, 1, 0)
         IN  Result([s EXCEPT !.vectors = r.file], Ok(r.n))

\* ------------------------------------------------------------------- search

IsWordChar(c) == c \in (48..57) \cup (65..90) \cup (97..122) \cup {95}

Lower(c) == IF c \in 65..90 THEN c + 32 ELSE c

\* re.findall(r"\w+", ...): the maximal runs of word characters of s from
\* position i on, cur being the run read so far
RECURSIVE FindWords(_, _, _)
FindWords(s, i, cur) ==
    IF i > Len(s) THEN (IF cur = << >> THEN << >> ELSE << cur >>)
    ELSE IF IsWordChar(s[i]) THEN FindWords(s, i + 1, Append(cur, s[i]))
    ELSE (IF cur = << >> THEN << >> ELSE << cur >>) \o FindWords(s, i + 1, << >>)

\* Memory._tokenize
tokenize(text) == FindWords([i \in 1..Len(text) |-> Lower(text[i])], 1, << >>)

\* the tokens of an entry: its text, a space, its tags joined by spaces
doc_tokens(e) == tokenize(e.text \o <<32>> \o Join(e.tags, <<32>>))

\* 1000 * ln((N + 1) / (df + 0.5)), rounded, for 1 <= df <= N <= 5
LnTable ==
    << <<288>>, <<693, 182>>, <<981, 470, 134>>, <<1204, 693, 357, 105>>,
       <<1386, 875, 539, 288, 87>> >>

\* 10000 * exp(-m / 1000), rounded, for m = 0, 10, 20, ..., 50
ExpTable == << 10000, 9900, 9802, 9704, 9608, 9512 >>

\* time_factor, times 10000: decay_lambda in thousandths, days_old in days.
\* math.exp gives the double 0.0 for an argument below about -745.13
time_factor(decay_lambda, days_old) ==
    IF decay_lambda > 0
    THEN IF decay_lambda * days_old > 745000 THEN 0
         ELSE ExpTable[(decay_lambda * days_old) \div 10 + 1]
    ELSE 10000

Count(seq, x) == Cardinality({ i \in 1..Len(seq) : seq[i] = x })

RECURSIVE SumOver(_, _)
SumOver(S, f) ==
    IF S = {} THEN 0
    ELSE LET x == CHOOSE y \in S : TRUE IN f[x] + SumOver(S \ {x}, f)

\* every entry given a positive score
tfidf_any(docs, i, query_tokens) == 1

\* tfidf_score of entry i, times 1000
tfidf_score(docs, i, query_tokens) ==
    LET N == Len(docs)
        df(t) == Cardinality({ j \in 1..N : t \in Range(docs[j]) })
        present == { qt \in query_tokens : qt \in Range(docs[i]) }
    IN  SumOver(present, [qt \in present |-> Count(docs[i], qt) * LnTable[N][df(qt)]])

\* final_score of entry i, times 3 * 10^7
final_score(self, entries, docs, i, query_tokens, t) ==
    tfidf_score(docs, i, query_tokens)
    * time_factor(self.time_decay_lambda, t - entries[i].timestamp)
    * entries[i].importance

\* x put before the elements of the same score: a sort that is not stable
RECURSIVE InsertDescFront(_, _)
InsertDescFront(sorted, x) ==
    IF sorted = << >> THEN << x >>
    ELSE IF sorted[1].score > x.score
    THEN << sorted[1] >> \o InsertDescFront(Tail(sorted), x)
    ELSE << x >> \o sorted

\* list.sort(key=lambda x: -x[0]): x put into a list sorted by descending
\* score, behind every element whose score is not lower
RECURSIVE InsertDesc(_, _)
InsertDesc(sorted, x) ==
    IF sorted = << >> THEN << x >>
    ELSE IF sorted[1].score >= x.score THEN << sorted[1] >> \o InsertDesc(Tail(sorted), x)
    ELSE << x >> \o sorted

RECURSIVE SortDesc(_)
SortDesc(scored) ==
    IF scored = << >> THEN << >>
    ELSE InsertDesc(SortDesc(SubSeq(scored, 1, Len(scored) - 1)), scored[Len(scored)])

Entries(scored) == [i \in 1..Len(scored) |-> scored[i].e]

\* Memory._keyword_search
keyword_search(self, query, entries, limit, t) ==
    LET query_tokens == Range(tokenize(query)) IN
    IF query_tokens = {} THEN TailSlice(entries, limit)
    ELSE
    LET docs == ListOf([i \in 1..Len(entries) |-> doc_tokens(entries[i])])
        all == ListOf([i \in 1..Len(entries) |->
                  [score |-> final_score(self, entries, docs, i, query_tokens, t),
                   e |-> entries[i]]])
        scored == SelectIdx(all, [i \in 1..Len(entries) |->
                                    tfidf_score(docs, i, query_tokens) > 0])
    IN  Entries(HeadSlice(SortDesc(scored), limit))

\* the integer square root
ISqrt(n) == CHOOSE r \in 0..n : r * r <= n /\ (r + 1) * (r + 1) > n

Dot(a, b) == SumOver(1..Min(Len(a), Len(b)),
                     [i \in 1..Min(Len(a), Len(b)) |-> a[i] * b[i]])

\* cosine_similarity, times 1000
cosine_similarity(a, b) ==
    LET norm_a == ISqrt(Dot(a, a))
        norm_b == ISqrt(Dot(b, b))
    IN  IF norm_a = 0 \/ norm_b = 0 THEN 0
        ELSE (1000 * Dot(a, b)) \div (norm_a * norm_b)

\* the entries that have a non-empty vector, each with sim(its vector)
WithVector(entries, vectors) ==
    SelectIdx(entries, [i \in 1..Len(entries) |->
                          /\ VectorOf(vectors, entries[i].id) # None
                          /\ VectorOf(vectors, entries[i].id)[1] # << >>])

\* VectorStore.search
vectors_search(s, query, entries, limit, response) ==
    IF ~response.ok THEN Ok(<< >>)
    ELSE IF response.data = << >> THEN Raise("IndexError")
    ELSE
    LET query_vec == response.data[1]
        vectors == load_vectors(s)
        cand == WithVector(entries, vectors)
        scored == ListOf([i \in 1..Len(cand) |->
                     [score |-> cosine_similarity(query_vec,
                                                  VectorOf(vectors, cand[i].id)[1]),
                      e |-> cand[i]]])
    IN  Ok(Entries(HeadSlice(SortDesc(scored), limit)))

\* the hybrid scorer leaving the vectors out
hybrid_keyword_only(s, self, query, entries, limit, t, response) ==
    keyword_search(self, query, entries, limit, t)

\* Memory._hybrid_search; the combined score is kept times 10000 * K, K the
\* number of keyword results (1 when there is none)
hybrid_search(s, self, query, entries, limit, t, response) ==
    LET keyword_results == keyword_search(self, query, entries, Len(entries), t)
        K == Len(keyword_results)
        \* keyword_scores[id] * K: the rank assigned last to the id
        ks(id) == IF \E r \in 1..K : keyword_results[r].id = id
                  THEN K - ((CHOOSE r \in 1..K :
                               /\ keyword_results[r].id = id
                               /\ \A q \in (r + 1)..K : keyword_results[q].id # id) - 1)
                  ELSE 0
        vectors == load_vectors(s)
        has_query_vec == response.ok /\ response.data # << >>
        vs(id) == IF /\ has_query_vec
                     /\ VectorOf(vectors, id) # None
                     /\ VectorOf(vectors, id)[1] # << >>
                  THEN cosine_similarity(response.data[1], VectorOf(vectors, id)[1])
                  ELSE 0
        combined == ListOf([i \in 1..Len(entries) |->
                       [score |-> 4 * 1000 * ks(entries[i].id)
                                  + 6 * vs(entries[i].id) * Max(K, 1),
                        e |-> entries[i]]])
        top == HeadSlice(SortDesc(combined), limit)
    IN  Entries(SelectIdx(top, [i \in 1..Len(top) |-> top[i].score > 0]))

\* Memory.search; limit and tag are None or Some(value), mode is "none" or
\* the caller's string; response is the provider's answer to the request
\* that embeds the query
search(s, self, query, limit, tag_, mode, t, response) ==
    LET lim == IF limit = None THEN self.max_results ELSE limit[1]
        m == IF mode = "none" THEN (IF enabled(self) THEN "vector" ELSE "keyword")
             ELSE mode
        l == load_all(s)
    IN
    IF l.exc # "none" THEN Result(s, l)
    ELSE
    LET entries == IF tag_ # None /\ tag_[1] # << >>
                   THEN SelectIdx(l.val, [i \in 1..Len(l.val) |->
                                            tag_[1] \in Range(l.val[i].tags)])
                   ELSE l.val
    IN  IF entries = << >> THEN Result(s, Ok(<< >>))
        ELSE IF m = "vector" /\ enabled(self)
        THEN Result(s, vectors_search(s, query, entries, lim, response))
        ELSE IF m = "hybrid" /\ enabled(self)
        THEN Result(s, Ok(hybrid_search(s, self, query, entries, lim, t, response)))
        ELSE Result(s, Ok(keyword_search(self, query, entries, lim, t)))

\* ------------------------------------------------- inputs of the operations

\* queries: "a", "b", "!" (no word character)
Queries == { <<97>>, <<98>>, <<33>> }

\* the mode argument of search: absent, or the caller's string
Modes == { "none", "keyword", "vector", "hybrid" }

\* the tag argument of search: absent, "a", "b"
TagFilters == { None, Some(<<97>>), Some(<<98>>) }

\* the limit argument of search: absent, or a number
Limits == { None } \cup { Some(n) : n \in 0..MaxLimit }

\* the vectors the provider answers with for a query
QueryVectors == Vectors \cup { <<0, 1>> }

\* the provider's answers to the request that embeds a query
QueryResponses ==
    { NoEmbeddings, [ok |-> TRUE, data |-> << >>] }
    \cup { [ok |-> TRUE, data |-> << v >>] : v \in QueryVectors }

\* the (add, remove) arguments of tag: add "a","b"; remove "a"; "a" in both;
\* add U+2028
TagArgs ==
    { [add |-> << <<97>>, <<98>> >>, remove |-> << >>],
      [add |-> << >>, remove |-> << <<97>> >>],
      [add |-> << <<97>> >>, remove |-> << <<97>> >>],
      [add |-> << <<8232>> >>, remove |-> << >>] }

\* the fmt argument of export
Formats == { "none", "json", "md" }

\* batch sizes of rebuild_vectors
BatchSizes == 1..MaxLog

\* what the provider may answer to a request for k texts by self: nothing but
\* a failure when it is down (up false) or self is not enabled and so sends
\* no request
Provider(up, self, k) ==
    IF up /\ enabled(self) THEN Responses(k) ELSE { NoEmbeddings }

\* what the provider may answer to the embedding of a query
QueryProvider(up, self) ==
    IF up /\ enabled(self) THEN QueryResponses ELSE { NoEmbeddings }

\* ------------------------------------------------------------ state machine

\* two processes that use the same store directory
Procs == { "A", "B" }

\* the locals of a process that has made no rewriting call yet
NoCall ==
    [op |-> "none", args |-> << >>, ret |-> Ok(None), read |-> << >>,
     write |-> << >>, written |-> 0, old |-> << >>, lost |-> << >>]

Init ==
    /\ store = [dir |-> FALSE, config |-> None, memories |-> None, vectors |-> None]
    /\ now = 0
    /\ last = [op |-> "Memory", args |-> << >>, ret |-> Ok(None)]
    /\ pc = [p \in Procs |-> "idle"]
    /\ local = [p \in Procs |-> NoCall]

\* the operation op, called with args, leaves r.s and gives r.ret
Apply(op, args, r) ==
    /\ store' = r.s
    /\ last' = IF r.s # store THEN [op |-> op, args |-> args, ret |-> r.ret] ELSE last
    /\ UNCHANGED << now, pc, local >>

\* number of lines of the log file and of the vector file
LogLen == IF store.memories = None THEN 0 ELSE Len(store.memories[1])

VecLen == IF store.vectors = None THEN 0 ELSE Len(store.vectors[1])

\* the clock advances
Tick ==
    /\ now < MaxClock
    /\ now' = now + 1
    /\ UNCHANGED << store, last, pc, local >>

Init_ == \E self \in Instances : Apply("init", << >>, init(store, self))

\* add with arguments from Args, the provider up or down
Add(Args, up) ==
    \E self \in Instances, a \in Args, uuid \in 1..MaxId :
    \E response \in Provider(up, self, 1) :
        /\ LogLen < MaxLog
        /\ enabled(self) /\ response.ok => VecLen < MaxVec
        /\ Apply("add", [a |-> a, uuid |-> uuid],
                 add(store, self, a.text, a.tags, a.metadata, a.importance,
                     uuid, now, response))

List == \E self \in Instances, limit \in 0..MaxLimit :
    Apply("list", << limit >>, list(store, self, limit))

Get == \E self \in Instances, memory_id \in 1..MaxId :
    Apply("get", << memory_id >>, get(store, self, memory_id))

\* search with the given queries, limits, tag filters and modes
Search(Qs, Ls, Ts, Ms, up) ==
    \E self \in Instances, query \in Qs, limit \in Ls, tag_ \in Ts, mode \in Ms :
    \E response \in QueryProvider(up, self) :
        Apply("search", << query, limit, tag_, mode >>,
              search(store, self, query, limit, tag_, mode, now, response))

Tag(Args) == \E self \in Instances, memory_id \in 1..MaxId, a \in Args :
    Apply("tag", [memory_id |-> memory_id, a |-> a],
          tag(store, self, memory_id, a.add, a.remove))

Delete == \E self \in Instances, memory_id \in 1..MaxId :
    Apply("delete", [memory_id |-> memory_id], delete(store, self, memory_id))

Export == \E self \in Instances, fmt \in Formats :
    Apply("export", << fmt >>, export(store, self, fmt))

RebuildVectors(up) ==
    \E self \in Instances, batch_size \in BatchSizes :
    \E responses \in [1..NumBatches(LogLen, batch_size) -> Provider(up, self, batch_size)] :
        Apply("rebuild_vectors", [batch_size |-> batch_size, responses |-> ListOf(responses)],
              rebuild_vectors(store, self, batch_size, responses))

Count_ == \E self \in Instances : Apply("count", << >>, count(store, self))

Clear == \E self \in Instances : Apply("clear", << >>, clear(store, self))

\* The record log: every operation, add with the arguments of AddArgs, the
\* clock standing still and the embedding provider down
Next ==
    \/ Init_
    \/ Add(AddArgs, FALSE)
    \/ List
    \/ Get
    \/ Search({ <<97>>, <<33>> }, { None, Some(0) }, { None, Some(<<97>>) },
              { "none", "hybrid" }, FALSE)
    \/ Tag(TagArgs)
    \/ Delete
    \/ Export
    \/ RebuildVectors(FALSE)
    \/ Count_
    \/ Clear

Spec == Init /\ [][Next]_vars

\* The vector index: every operation, add with plain arguments, the
\* provider answering or failing
NextVec ==
    \/ Init_
    \/ Add(PlainArgs, TRUE)
    \/ List
    \/ Get
    \/ Search({ <<97>> }, { None, Some(0) }, { None }, { "none", "hybrid" }, TRUE)
    \/ Tag({ [add |-> << <<97>> >>, remove |-> << >>] })
    \/ Delete
    \/ Export
    \/ RebuildVectors(TRUE)
    \/ Count_
    \/ Clear

SpecVec == Init /\ [][NextVec]_vars

\* Ranking by keyword: records "a" of importance 5 and 1 and records "b"
\* added while the clock advances, the provider down
NextRank ==
    \/ Init_
    \/ Add(RankArgs, FALSE)
    \/ Tick
    \/ Search({ <<97>> }, { None }, { None }, { "none" }, FALSE)

SpecRank == Init /\ [][NextRank]_vars

\* the provider answers a text with an embedding of no numbers
EmptyEmbedding == [ok |-> TRUE, data |-> << << >> >>]

\* add by an instance with a provider that answers with EmptyEmbedding
AddEmptyEmbedding ==
    \E self \in Instances, a \in PlainArgs, uuid \in 1..MaxId :
        /\ enabled(self)
        /\ LogLen < MaxLog
        /\ VecLen < MaxVec
        /\ Apply("add", [a |-> a, uuid |-> uuid],
                 add(store, self, a.text, a.tags, a.metadata, a.importance,
                     uuid, now, EmptyEmbedding))

\* Vector search over an index whose entries the provider filled, with
\* vectors of two numbers or of none
NextEmb ==
    \/ Init_
    \/ Add(PlainArgs, TRUE)
    \/ AddEmptyEmbedding
    \/ Search({ <<97>> }, { None, Some(0) }, { None }, { "none", "vector" }, TRUE)

SpecEmb == Init /\ [][NextEmb]_vars

\* Two processes.  delete, tag and clear run in steps: _load_all (Load),
\* open(path, "w") (Open), the buffered writes reaching the file (Flush) and
\* the end of the with block (Close); add is one step.  Reads by the other
\* process fall between any two steps.  An append or a second rewrite
\* inside the write phase of a rewrite is left out (byte offsets are not
\* modelled).

\* the lines of a file, none while it does not exist
Lines(file) == IF file = None THEN << >> ELSE file[1]

\* the instance both processes construct: Memory(path), no provider
Plain == CHOOSE self \in Instances : ~enabled(self)

\* what the processes add: the text "a"
ConcArgs == { a \in PlainArgs : a.text = <<97>> }

\* the rewriting calls a process makes
Rewrites ==
    { [op |-> "delete", id |-> i] : i \in 1..MaxId }
    \cup { [op |-> "tag", id |-> i] : i \in 1..MaxId }
    \cup { [op |-> "clear"] }

\* the call computed on the log as it is read
Rewritten(s, call) ==
    IF call.op = "delete" THEN delete(s, Plain, call.id)
    ELSE IF call.op = "tag" THEN tag(s, Plain, call.id, << <<97>> >>, << >>)
    ELSE clear(s, Plain)

\* the call reaches _save_all: the id was found (delete, tag), always (clear)
Saves(call, r) ==
    /\ r.ret.exc = "none"
    /\ call.op = "delete" => r.ret.val = TRUE
    /\ call.op = "tag" => r.ret.val # None

NoWriter == \A q \in Procs : pc[q] # "writing"

\* add by process p, sdk.py 113-136
ProcAdd(p) ==
    /\ pc[p] = "idle"
    /\ NoWriter
    /\ LogLen < MaxLog
    /\ \E a \in ConcArgs, uuid \in 1..MaxId :
         LET r == add(store, Plain, a.text, a.tags, a.metadata, a.importance,
                      uuid, now, NoEmbeddings)
         IN  /\ store' = r.s
             /\ last' = [op |-> "add", args |-> [a |-> a, uuid |-> uuid], ret |-> r.ret]
    /\ UNCHANGED << now, pc, local >>

\* entries = self._load_all() and the changes made in memory up to the call
\* of _save_all; a call that does not reach _save_all returns here
Load(p) ==
    /\ pc[p] = "idle"
    /\ NoWriter
    /\ \E call \in Rewrites :
         LET r == Rewritten(store, call) IN
         /\ Saves(call, r)
         /\ pc' = [pc EXCEPT ![p] = "loaded"]
         /\ local' = [local EXCEPT ![p] =
                         [op |-> call.op, args |-> call, ret |-> r.ret,
                          read |-> Lines(store.memories),
                          write |-> Lines(r.s.memories),
                          written |-> 0, old |-> << >>, lost |-> << >>]]
    /\ UNCHANGED << store, now, last >>

\* the lines of the file that a call which read l.read never saw and did
\* not ask to change
Lost(l, lines) ==
    LET unread == SelectIdx(lines, [i \in 1..Len(lines) |->
                     /\ lines[i] \notin Range(l.read)
                     /\ l.op # "clear" => loads(lines[i]).id # l.args.id])
    IN  [i \in 1..Len(unread) |->
            [line |-> unread[i],
             added |-> \A j \in 1..Len(l.read) :
                          loads(l.read[j]).id # loads(unread[i]).id]]

\* open(self._memories_path, "w"): the file is truncated
Open(p) ==
    /\ pc[p] = "loaded"
    /\ NoWriter
    /\ store' = [store EXCEPT !.memories = Some(<< >>)]
    /\ pc' = [pc EXCEPT ![p] = "writing"]
    /\ local' = [local EXCEPT ![p].old = Lines(store.memories),
                              ![p].lost = Lost(local[p], Lines(store.memories)),
                              ![p].read = << >>]
    /\ UNCHANGED << now, last >>

write_none(file, l, k) == file

\* the file after the next k lines of the buffer have reached it
write_lines(file, l, k) ==
    Some(Lines(file) \o SubSeq(l.write, l.written + 1, l.written + k))

\* the buffer of f.write is flushed before the file is closed
Flush(p) ==
    /\ pc[p] = "writing"
    /\ \E k \in 1..(Len(local[p].write) - local[p].written) :
         /\ store' = [store EXCEPT !.memories = write_lines(@, local[p], k)]
         /\ local' = [local EXCEPT ![p].written = @ + k]
    /\ UNCHANGED << now, last, pc >>

\* the with block ends: what is left in the buffer is written, the file
\* closed, and the call returns
Close(p) ==
    /\ pc[p] = "writing"
    /\ LET k == Len(local[p].write) - local[p].written IN
         /\ store' = [store EXCEPT !.memories = write_lines(@, local[p], k)]
         /\ local' = [local EXCEPT ![p].written = 0, ![p].write = << >>,
                                   ![p].old = << >>, ![p].ret = Ok(None)]
    /\ pc' = [pc EXCEPT ![p] = "idle"]
    /\ last' = [op |-> local[p].op, args |-> local[p].args, ret |-> local[p].ret]
    /\ UNCHANGED now

NextConc ==
    \/ Init_
    \/ \E p \in Procs : ProcAdd(p)
    \/ \E p \in Procs : Load(p)
    \/ \E p \in Procs : Open(p)
    \/ \E p \in Procs : Flush(p)
    \/ \E p \in Procs : Close(p)

SpecConc == Init /\ [][NextConc]_vars

\* ------------------------------------------------------------------ claims

\* the log can be read, and the records read from it
Readable == load_all(store).exc = "none"

Log == load_all(store).val

\* x brought into [1,5]
InRange15(x) == IF x < 1 THEN 1 ELSE IF x > 5 THEN 5 ELSE x

\* the last n elements of s, none for n = 0
LastN(s, n) == SubSeq(s, Len(s) - Min(n, Len(s)) + 1, Len(s))

\* C1: once add(text, tags, metadata, importance) has returned a record r on
\* an initialized store, get(r.id) returns a record with the text, tags and
\* metadata given and the importance given clamped into [1,5].
C1_AddThenGet ==
    last.op = "add" =>
        /\ last.ret.exc = "none"
        /\ \A self \in Instances :
             LET g == get(store, self, last.ret.val.id).ret IN
             /\ g.exc = "none"
             /\ g.val # None
             /\ g.val[1].text = last.args.a.text
             /\ g.val[1].tags = last.args.a.tags
             /\ g.val[1].metadata = last.args.a.metadata
             /\ g.val[1].importance = InRange15(last.args.a.importance)

\* C2: delete(id) on an id present in the log returns true; after it get(id)
\* is absent, no record list returns has the id, count() is one less than
\* before, and a second delete(id) returns false and changes nothing.
C2_DeletePresent ==
    Readable =>
    \A self \in Instances, id \in 1..MaxId :
        (\E i \in 1..Len(Log) : Log[i].id = id) =>
            LET d == delete(store, self, id) IN
            /\ d.ret = Ok(TRUE)
            /\ get(d.s, self, id).ret = Ok(None)
            /\ \A n \in 0..MaxLimit :
                 \A e \in Range(list(d.s, self, n).ret.val) : e.id # id
            /\ count(d.s, self).ret = Ok(Len(Log) - 1)
            /\ delete(d.s, self, id) = Result(d.s, Ok(FALSE))

\* C3: tag(id, add=A, remove=R) on an existing id returns the record with
\* its tags replaced by the sorted, duplicate-free (old tags + A) - R, and a
\* following get(id) shows the same tags.
C3_TagSetsTags ==
    Readable =>
    \A self \in Instances, id \in 1..MaxId, a \in TagArgs :
        (\E i \in 1..Len(Log) : Log[i].id = id) =>
            LET old == get(store, self, id).ret.val[1].tags
                r == tag(store, self, id, a.add, a.remove)
                g == get(r.s, self, id).ret
            IN  /\ r.ret.exc = "none"
                /\ r.ret.val # None
                /\ IsSortedNoDup(r.ret.val[1].tags)
                /\ Range(r.ret.val[1].tags)
                     = (Range(old) \cup Range(a.add)) \ Range(a.remove)
                /\ g.exc = "none"
                /\ g.val # None
                /\ g.val[1].tags = r.ret.val[1].tags

NotInitialized(r) == r.ret = Raise("FileNotFoundError") /\ r.s = store

\* C4: while the store directory is absent, add, list, get, search, tag,
\* delete, export, rebuild_vectors, count and clear each raise the
\* not-initialized error and leave the store as it is, without directory,
\* log or vector file; init makes the directory.
C4_NotInitialized ==
    ~store.dir =>
        /\ store.memories = None /\ store.vectors = None /\ store.config = None
        /\ \A self \in Instances :
            /\ init(store, self).s.dir
            /\ \A a \in AddArgs, uuid \in 1..MaxId, response \in Responses(1) :
                 NotInitialized(add(store, self, a.text, a.tags, a.metadata,
                                    a.importance, uuid, now, response))
            /\ \A n \in 0..MaxLimit : NotInitialized(list(store, self, n))
            /\ \A id \in 1..MaxId :
                 /\ NotInitialized(get(store, self, id))
                 /\ NotInitialized(delete(store, self, id))
                 /\ \A a \in TagArgs : NotInitialized(tag(store, self, id, a.add, a.remove))
            /\ \A query \in Queries, limit \in Limits, tag_ \in TagFilters,
                  mode \in Modes, response \in QueryResponses :
                 NotInitialized(search(store, self, query, limit, tag_, mode,
                                       now, response))
            /\ \A fmt \in Formats : NotInitialized(export(store, self, fmt))
            /\ \A batch_size \in BatchSizes :
                 NotInitialized(rebuild_vectors(store, self, batch_size, << >>))
            /\ NotInitialized(count(store, self))
            /\ NotInitialized(clear(store, self))

\* the case of C4: the store not initialized and a call refused
C4_Witness ==
    /\ ~store.dir
    /\ \E self \in Instances :
         add(store, self, <<97>>, << >>, << >>, 3, 1, now, NoEmbeddings).ret.exc
           = "FileNotFoundError"

\* the ids, texts and importances of the written lines
Kept(lines) == { << lines[i].id, lines[i].timestamp, lines[i].text, lines[i].importance >> :
                   i \in 1..Len(lines) }

LinesOf(s) == IF s.memories = None THEN << >> ELSE s.memories[1]

\* C5: every record of the log has an importance in [1,5]: add stores the
\* importance given clamped into [1,5] and never rejects it, and no other
\* operation changes the importance of a record.
C5_ImportanceInRange ==
    /\ \A i \in 1..LogLen : store.memories[1][i].importance \in 1..5
    /\ store.dir =>
        \A self \in Instances, a \in AddArgs, uuid \in 1..MaxId,
           importance \in (0 - 2)..11 :
            LET r == add(store, self, a.text, a.tags, a.metadata, importance,
                         uuid, now, NoEmbeddings)
            IN  /\ r.ret.exc = "none"
                /\ r.ret.val.importance = InRange15(importance)
                /\ r.s.memories[1][LogLen + 1].importance = InRange15(importance)
                /\ \A i \in 1..LogLen : r.s.memories[1][i] = store.memories[1][i]
    /\ \A self \in Instances, id \in 1..MaxId :
        /\ Kept(LinesOf(delete(store, self, id).s)) \subseteq Kept(LinesOf(store))
        /\ Kept(LinesOf(clear(store, self).s)) \subseteq Kept(LinesOf(store))
        /\ Kept(LinesOf(init(store, self).s)) = Kept(LinesOf(store))
        /\ \A batch_size \in BatchSizes :
             Kept(LinesOf(rebuild_vectors(store, self, batch_size,
                     [b \in 1..LogLen |-> NoEmbeddings]).s)) = Kept(LinesOf(store))
        /\ \A a \in TagArgs :
             Kept(LinesOf(tag(store, self, id, a.add, a.remove).s)) = Kept(LinesOf(store))

\* the case of C5: add was given the importance 10 and stored 5
C5_Witness ==
    /\ last.op = "add"
    /\ last.args.a.importance = 10
    /\ last.ret.exc = "none"
    /\ last.ret.val.importance = 5
    /\ store.memories[1][LogLen].importance = 5

\* C6: no two records of the log have the same id.
C6_UniqueIds ==
    \A i, j \in 1..LogLen :
        i # j => store.memories[1][i].id # store.memories[1][j].id

\* C7: the tags of every record of the log are sorted and free of duplicates.
C7_TagsSorted ==
    \A i \in 1..LogLen : IsSortedNoDup(loads(store.memories[1][i]).tags)

\* C8: init on an initialized store leaves the log, the vector index and
\* the configuration document as they are.
C8_InitIdempotent ==
    store.dir => \A self \in Instances : init(store, self) = Result(store, Ok(None))

\* the case of C8: records, vectors and a configuration written by another
\* instance are there, and init by this instance keeps them
C8_Witness ==
    /\ store.dir
    /\ LogLen > 0
    /\ VecLen > 0
    /\ \E self \in Instances :
         /\ store.config # Some(self)
         /\ init(store, self).s = store

\* C9: for every n >= 0, list(n) returns the last min(n, L) records of the
\* log of length L, in insertion order.
C9_ListLastN ==
    Readable =>
    \A self \in Instances, n \in 0..MaxLimit :
        list(store, self, n).ret = Ok(LastN(Log, n))

\* C10: search returns at most limit records, limit being max_results of the
\* configuration when it is omitted.
C10_SearchAtMostLimit ==
    \A self \in Instances, query \in Queries, limit \in Limits,
       tag_ \in TagFilters, mode \in Modes, response \in QueryResponses :
        LET r == search(store, self, query, limit, tag_, mode, now, response).ret
        IN  r.exc = "none" =>
              Len(r.val) <= (IF limit = None THEN self.max_results ELSE limit[1])

\* the tags written on line i of the log
TagsOfLine(i) == Range(loads(store.memories[1][i]).tags)

\* C11: each record search(query, tag=t) returns has t among its tags, for
\* every non-empty t, query and mode; when no record of the log has the tag
\* t, and so on an empty log, the result is empty.
C11_TagFilter ==
    store.dir =>
    \A self \in Instances, query \in Queries, limit \in Limits,
       tag_ \in TagFilters \ { None }, mode \in Modes, response \in QueryResponses :
        LET r == search(store, self, query, limit, tag_, mode, now, response).ret
        IN  /\ r.exc = "none" => \A e \in Range(r.val) : tag_[1] \in Range(e.tags)
            /\ (\A i \in 1..LogLen : tag_[1] \notin TagsOfLine(i)) => r = Ok(<< >>)

\* the scorer that is to run for an instance and a mode argument: the mode
\* given, else vector with an enabled index, else keyword; vector and hybrid
\* only with an enabled index
ScorerFor(self, mode) ==
    LET resolved == IF mode # "none" THEN mode
                    ELSE IF self.embedding THEN "vector" ELSE "keyword"
    IN  IF resolved = "vector" /\ self.embedding THEN "vector"
        ELSE IF resolved = "hybrid" /\ self.embedding THEN "hybrid"
        ELSE "keyword"

\* the records of the log that pass the tag filter
Candidates(tag_) ==
    IF tag_ = None THEN Log
    ELSE SelectIdx(Log, [i \in 1..Len(Log) |-> tag_[1] \in Range(Log[i].tags)])

\* provider answers to a query: a failure, no vector, one vector
SomeQueryResponses ==
    { NoEmbeddings, [ok |-> TRUE, data |-> << >>], [ok |-> TRUE, data |-> << <<1, 0>> >>] }

Matches(query, e) == Range(tokenize(query)) \cap Range(doc_tokens(e)) # {}

\* queries "a", "A", "B", "c" and "c a"
KeywordQueries == { <<97>>, <<65>>, <<66>>, <<99>>, <<99, 32, 97>> }

\* C13: for a query with a token, keyword search over a candidate set
\* returns only candidates that have a query token among the case-folded
\* word tokens of their text and tags, and with limit >= the number of
\* candidates it returns every such candidate, each once; a query none of
\* whose tokens occurs returns nothing.
C13_KeywordMatches ==
    Readable =>
    \A self \in Instances, query \in KeywordQueries, tag_ \in { None, Some(<<97>>) } :
        LET entries == Candidates(tag_)
            matching == { i \in 1..Len(entries) : Matches(query, entries[i]) }
        IN  \A limit \in 0..(MaxLimit + 1) :
            LET r == keyword_search(self, query, entries, limit, now) IN
            /\ \A e \in Range(r) : Matches(query, e)
            /\ limit >= Len(entries) =>
                 /\ Len(r) = Cardinality(matching)
                 /\ \A i \in matching : entries[i] \in Range(r)
            /\ matching = {} => r = << >>

\* the case of C13: of two candidates the query "B" returns the one whose
\* text is "B a" and not the one whose text is "a", and the query "A"
\* returns both
C13_Witness ==
    /\ Readable
    /\ Len(Log) = 2
    /\ Log[1].text = <<97>> /\ Log[1].tags = << >>
    /\ Log[2].text = <<66, 32, 97>>
    /\ \E self \in Instances :
         /\ keyword_search(self, <<66>>, Log, 2, now) = << Log[2] >>
         /\ Len(keyword_search(self, <<65>>, Log, 2, now)) = 2

\* outcomes of the provider call that give no vector for the text: the call
\* failed (transport error, timeout, malformed response), or a well-formed
\* response without a vector
NoVectorResponses == { NoEmbeddings, [ok |-> TRUE, data |-> << >>] }

\* C14: with the index enabled, whatever the outcome of the provider call
\* that gives no vector, add returns the new record without raising, the
\* record is the last of the log, and the vector index is as it was.
C14_AddSurvivesEmbeddingFailure ==
    store.dir =>
    \A self \in Instances, a \in PlainArgs, uuid \in 1..MaxId,
       response \in NoVectorResponses :
        self.embedding =>
            LET r == add(store, self, a.text, a.tags, a.metadata, a.importance,
                         uuid, now, response)
            IN  /\ r.ret.exc = "none"
                /\ r.ret.val.id = uuid /\ r.ret.val.text = a.text
                /\ Len(LinesOf(r.s)) = LogLen + 1
                /\ LinesOf(r.s)[LogLen + 1] = dumps(r.ret.val)
                /\ r.s.vectors = store.vectors

\* C15: after delete(id) has returned true the vector index holds no entry
\* for id, whichever instance opened on the store does the delete.
C15_DeleteRemovesVector ==
    \A self \in Instances, id \in 1..MaxId :
        LET d == delete(store, self, id) IN
        d.ret = Ok(TRUE) => VectorOf(load_vectors(d.s), id) = None

\* C16: clear() returns the number of records the log held, after it
\* count() is 0 and list returns nothing, and the vector index is what it
\* was before the call.
C16_Clear ==
    store.dir =>
    \A self \in Instances :
        LET c == clear(store, self) IN
        /\ c.ret = Ok(LogLen)
        /\ count(c.s, self).ret = Ok(0)
        /\ \A n \in 0..MaxLimit : list(c.s, self, n).ret = Ok(<< >>)
        /\ c.s.vectors = store.vectors

\* json.loads of the text export("json") gives: the list of the documents
ParseExport(x) == [i \in 1..Len(x.doc) |-> loads(x.doc[i])]

\* C17: in every state of an initialized store the output of export("json"),
\* parsed, is the list of records list(n) returns for any n >= count(),
\* element by element and in the same order.
C17_ExportRoundTrip ==
    store.dir =>
    \A self \in Instances, n \in LogLen..(MaxLimit + 1) :
        LET x == export(store, self, "json").ret
            l == list(store, self, n).ret
        IN  /\ x.exc = "none"
            /\ l.exc = "none"
            /\ ParseExport(x.val) = l.val

\* C18: get, delete and tag on an id that is not in the log return absent,
\* false and absent, do not raise, and leave the log as it is.
C18_UnknownId ==
    store.dir =>
    \A self \in Instances, id \in 1..(MaxId + 1) :
        (\A i \in 1..LogLen : store.memories[1][i].id # id) =>
            /\ get(store, self, id) = Result(store, Ok(None))
            /\ delete(store, self, id) = Result(store, Ok(FALSE))
            /\ \A a \in TagArgs :
                 tag(store, self, id, a.add, a.remove) = Result(store, Ok(None))

\* the combined score 0.4 * keyword contribution + 0.6 * cosine similarity
\* of candidate e, times 10000 * K, K the number of keyword results (1 when
\* there is none): the keyword contribution is 1 - rank / K for a keyword
\* result at rank 0, 1, ... and 0 for any other candidate; the cosine is
\* taken with the stored vector of e and is 0 when e has none or the query
\* has no embedding
CombinedScore(self, query, entries, e, response) ==
    LET kr == keyword_search(self, query, entries, Len(entries), now)
        K == Len(kr)
        ranks == { r \in 1..K : kr[r].id = e.id }
        kc == IF ranks = {} THEN 0
              ELSE K - ((CHOOSE r \in ranks : \A q \in ranks : q <= r) - 1)
        vec == VectorOf(load_vectors(store), e.id)
        cos == IF response.ok /\ response.data # << >> /\ vec # None /\ vec[1] # << >>
               THEN cosine_similarity(response.data[1], vec[1])
               ELSE 0
    IN  4 * 1000 * kc + 6 * cos * Max(K, 1)

\* C19: hybrid search returns the first limit candidates, in descending
\* order of combined score, among the candidates whose combined score is
\* strictly positive: none with a score <= 0 is returned and none displaces
\* a candidate with a positive score.
C19_HybridPositive ==
    Readable /\ Log # << >> =>
    \A self \in Instances, query \in { <<97>>, <<33>> },
       response \in QueryResponses :
        self.embedding =>
            LET scored == ListOf([i \in 1..Len(Log) |->
                            [score |-> CombinedScore(self, query, Log, Log[i], response),
                             e |-> Log[i]]])
                positive == SelectIdx(scored, [i \in 1..Len(scored) |-> scored[i].score > 0])
            IN  \A limit \in 0..MaxLimit :
                    hybrid_search(store, self, query, Log, limit, now, response)
                      = Entries(HeadSlice(SortDesc(positive), limit))

\* the case of C19: the query "a" matches the record "a" by keyword, the
\* stored vector of that record is opposite to the query's, and hybrid
\* search returns the record "b", whose vector is the query's, alone
C19_Witness ==
    /\ Readable
    /\ Len(Log) = 2
    /\ Log[1].text = <<97>> /\ Log[2].text = <<98>> /\ Log[1].id # Log[2].id
    /\ \E self \in Instances :
         LET response == [ok |-> TRUE, data |-> << <<1, 0>> >>] IN
         /\ self.embedding
         /\ keyword_search(self, <<97>>, Log, 2, now) = << Log[1] >>
         /\ CombinedScore(self, <<97>>, Log, Log[1], response) < 0
         /\ CombinedScore(self, <<97>>, Log, Log[2], response) > 0
         /\ hybrid_search(store, self, <<97>>, Log, 2, now, response) = << Log[2] >>

\* C20: with the index enabled, when the provider call that embeds the query
\* fails, search in mode vector and in mode hybrid returns an empty result,
\* whatever the store holds.
C20_QueryEmbeddingFailure ==
    Readable =>
    \A self \in Instances, query \in Queries, limit \in Limits,
       tag_ \in TagFilters, mode \in { "vector", "hybrid" } :
        self.embedding =>
            search(store, self, query, limit, tag_, mode, now, NoEmbeddings).ret
              = Ok(<< >>)

\* the candidate sequence in the opposite order
Reverse(seq) == [i \in 1..Len(seq) |-> seq[Len(seq) + 1 - i]]

\* two records with the same multiset of tokens
SameTokens(e1, e2) ==
    \A tok \in Range(doc_tokens(e1)) \cup Range(doc_tokens(e2)) :
        Count(doc_tokens(e1), tok) = Count(doc_tokens(e2), tok)

\* x is in the result r, and so is y, and x stands before y
RankedBefore(r, x, y) ==
    /\ x \in Range(r)
    /\ y \in Range(r)
    /\ \A p, q \in 1..Len(r) : (r[p] = x /\ r[q] = y) => p < q

\* C21: in keyword search, of two candidates with the same token multiset
\* and the same timestamp that both match the query, the one with the
\* higher importance is ranked strictly before the other, whatever their
\* order in the log.
C21_ImportanceRanks ==
    Readable =>
    \A self \in RankInstances, entries \in { Log, Reverse(Log) } :
        \A i, j \in 1..Len(entries) :
            ( /\ SameTokens(entries[i], entries[j])
              /\ entries[i].timestamp = entries[j].timestamp
              /\ Matches(<<97>>, entries[i])
              /\ entries[i].importance > entries[j].importance )
            => RankedBefore(keyword_search(self, <<97>>, entries, Len(entries), now),
                            entries[i], entries[j])

\* C22: in keyword search with decay_lambda > 0, of two matching candidates
\* with the same token multiset and the same importance, the one with the
\* later timestamp is ranked strictly before the older one, whatever their
\* order in the log; with decay_lambda = 0 the time factor is exactly 1 for
\* both and their scores are equal.
C22_TimeDecayRanks ==
    Readable =>
    \A self \in RankInstances, entries \in { Log, Reverse(Log) } :
        \A i, j \in 1..Len(entries) :
            ( /\ SameTokens(entries[i], entries[j])
              /\ entries[i].importance = entries[j].importance
              /\ Matches(<<97>>, entries[i]) )
            => LET docs == [k \in 1..Len(entries) |-> doc_tokens(entries[k])]
                   score(k) == final_score(self, entries, docs, k, Range(tokenize(<<97>>)), now)
               IN  IF self.time_decay_lambda > 0
                   THEN entries[i].timestamp > entries[j].timestamp =>
                          RankedBefore(keyword_search(self, <<97>>, entries,
                                                      Len(entries), now),
                                       entries[i], entries[j])
                   ELSE /\ time_factor(self.time_decay_lambda,
                                       now - entries[i].timestamp) = 10000
                        /\ time_factor(self.time_decay_lambda,
                                       now - entries[j].timestamp) = 10000
                        /\ score(i) = score(j)

\* the lines of the vector file
VectorLines(file) == IF file = None THEN << >> ELSE file[1]

\* the batch of VectorStore.rebuild made of the records lo..hi
BatchOf(entries, lo, hi) ==
    [i \in 1..(hi - lo + 1) |->
        [id |-> entries[lo + i - 1].id, text |-> entries[lo + i - 1].text]]

\* C23: after rebuild_vectors(batch_size >= 1) the Vector Index contains
\* one entry for each record of every batch whose provider call succeeded
\* and nothing else, every id in the index is the id of a record in the
\* log, and the returned count equals the number of entries in the index
\* (count() when every batch succeeds, 0 and an empty index when every
\* batch fails).
C23_RebuildVectors ==
    (last.op = "rebuild_vectors" /\ last.ret.exc = "none" /\ Readable) =>
    LET batch_size == last.args.batch_size
        responses == last.args.responses
        embedded == { i \in 1..Len(Log) : responses[(i - 1) \div batch_size + 1].ok }
        index == load_vectors(store)
    IN  /\ \A i \in embedded : VectorOf(index, Log[i].id) # None
        /\ \A x \in Range(index) : \E i \in embedded : Log[i].id = x.id
        /\ Len(VectorLines(store.vectors)) = Cardinality(embedded)
        /\ last.ret.val = Len(index)
        /\ embedded = 1..Len(Log) => last.ret.val = Len(Log)
        /\ embedded = {} => (last.ret.val = 0 /\ index = << >>)

\* C24: embed_batch(items) is all-or-nothing and returns the number of
\* entries it stored: for a provider failure and for a response with as
\* many or fewer vectors than items it either appends nothing and returns
\* 0, or appends one entry per item, in submitted order and paired with
\* that item's vector, and returns len(items).
C24_EmbedBatchAllOrNothing ==
    Readable =>
    \A lo, hi \in 1..Len(Log) :
        lo <= hi =>
        LET items == BatchOf(Log, lo, hi) IN
        \A response \in Responses(Len(items)) :
            LET r == embed_batch(store.vectors, items, response)
                old == VectorLines(store.vectors)
                new == VectorLines(r.file)
            IN  \/ new = old /\ r.n = 0
                \/ /\ Len(response.data) = Len(items)
                   /\ new = old \o [i \in 1..Len(items) |->
                                      [id |-> items[i].id,
                                       vector |-> response.data[i]]]
                   /\ r.n = Len(items)

\* C25: add is append-only on the Record Log: after add the log is the
\* previous log, every prior record unchanged and at the same position,
\* followed by exactly one new record, so count() grows by exactly one and
\* the new record is the last element of list.
C25_AddAppendOnly ==
    Readable =>
    \A self \in Instances, a \in AddArgs, uuid \in 1..MaxId :
        LET r == add(store, self, a.text, a.tags, a.metadata, a.importance,
                     uuid, now, NoEmbeddings)
        IN  /\ r.ret.exc = "none"
            /\ VectorLines(r.s.memories) = VectorLines(store.memories) \o << dumps(r.ret.val) >>
            /\ load_all(r.s) = Ok(Log \o << r.ret.val >>)
            /\ count(r.s, self).ret = Ok(Len(Log) + 1)
            /\ list(r.s, self, 1).ret = Ok(<< r.ret.val >>)

\* what _load_all gives on a log file made of lines
ReadOf(lines) == load_all([store EXCEPT !.memories = Some(lines)])

\* C26: a log rewrite (by delete, tag or clear) replaces the Record Log
\* atomically: a read of the log by another process while the rewrite is
\* under way gives the complete old sequence or the complete new sequence,
\* never an empty or partially written log.
C26_AtomicRewrite ==
    \A p \in Procs :
        pc[p] = "writing" =>
            load_all(store) \in { ReadOf(local[p].old), ReadOf(local[p].write) }

C28_EmptyQueryLastN ==
    Readable =>
    \A self \in Instances, tag_ \in TagFilters, limit \in 0..(MaxLimit + 1) :
        LET entries == Candidates(tag_) IN
        keyword_search(self, <<33>>, entries, limit, now)
            = LastN(entries, Min(limit, Len(entries)))

\* the candidates that have an entry in the Vector Index
WithEntry(entries, vectors) ==
    SelectIdx(entries, [i \in 1..Len(entries) |->
                          VectorOf(vectors, entries[i].id) # None])

\* C29: vector-mode search, the provider call for the query succeeding,
\* returns the first limit, in descending cosine similarity, of exactly
\* those candidates that have an entry in the Vector Index: a candidate
\* without an entry is never returned, and a candidate with an entry is not
\* left out for a zero or negative similarity.
C29_VectorSearch ==
    Readable =>
    \A limit \in 0..(MaxLimit + 1), query_vec \in QueryVectors :
        LET entries == Log
            vectors == load_vectors(store)
            indexed == WithEntry(entries, vectors)
            sim(e) == cosine_similarity(query_vec, VectorOf(vectors, e.id)[1])
            r == vectors_search(store, <<97>>, entries, limit,
                                [ok |-> TRUE, data |-> << query_vec >>])
        IN  /\ r.exc = "none"
            /\ Len(r.val) = Min(limit, Len(indexed))
            /\ \A e \in Range(r.val) : e \in Range(indexed)
            /\ \A i, j \in 1..Len(r.val) : i < j => sim(r.val[i]) >= sim(r.val[j])
            /\ \A e \in Range(indexed) :
                  \/ Count(r.val, e) = Count(indexed, e)
                  \/ \A x \in Range(r.val) : sim(x) >= sim(e)

\* C30: delete(id), by an instance with a provider, removes the Vector
\* Index entry for id whatever happens on the Record Log: also when the log
\* holds no record with that id (an entry left behind by clear), the index
\* has no entry for id after the call.
C30_DeleteOrphanVector ==
    Readable =>
    \A self \in Instances, memory_id \in 1..MaxId :
        enabled(self) =>
            LET r == delete(store, self, memory_id)
            IN  /\ r.ret.exc = "none"
                /\ VectorOf(load_vectors(r.s), memory_id) = None

\* C31: add, tag, delete and rebuild_vectors leave every record of the log
\* its id, timestamp, text, metadata and importance: add keeps the lines
\* that were there and puts one behind them, delete keeps the records with
\* another id, whole and in their order, tag keeps the number and order of
\* the records, changes one record with the id at most and of that record
\* the tags only, and rebuild_vectors keeps the log as it is.
C31_RecordsKept ==
    \A self \in Instances, memory_id \in 1..MaxId :
        LET lines == LinesOf(store) IN
        /\ \A a \in AddArgs, uuid \in 1..MaxId :
              LET new == LinesOf(add(store, self, a.text, a.tags, a.metadata,
                                     a.importance, uuid, now, NoEmbeddings).s)
              IN  store.dir => (Len(new) = Len(lines) + 1
                                /\ SubSeq(new, 1, Len(lines)) = lines)
        /\ LET new == LinesOf(delete(store, self, memory_id).s)
           IN  new = IF Readable
                     THEN SelectIdx(lines, [i \in 1..Len(lines) |->
                                              lines[i].id # memory_id])
                     ELSE lines
        /\ \A a \in TagArgs :
              LET new == LinesOf(tag(store, self, memory_id, a.add, a.remove).s)
                  changed == { i \in 1..Len(lines) : new[i] # lines[i] }
              IN  /\ Len(new) = Len(lines)
                  /\ Cardinality(changed) <= 1
                  /\ \A i \in changed :
                        /\ lines[i].id = memory_id
                        /\ [new[i] EXCEPT !.tags = lines[i].tags] = lines[i]
        /\ \A batch_size \in BatchSizes,
              response \in { NoEmbeddings, [ok |-> TRUE, data |-> << <<1, 0>> >>] } :
              LinesOf(rebuild_vectors(store, self, batch_size,
                                      [b \in 1..LogLen |-> response]).s) = lines

\* the case of C31: tag has changed the tags of one of two records with
\* different ids, and the other record is in the log
C31_Witness ==
    /\ last.op = "tag"
    /\ last.ret.exc = "none"
    /\ last.ret.val # None
    /\ LogLen = 2
    /\ \E i \in 1..LogLen : store.memories[1][i].id # last.args.memory_id
    /\ \E i \in 1..LogLen : /\ store.memories[1][i].id = last.args.memory_id
                             /\ store.memories[1][i].tags # << >>

RECURSIVE Flatten(_)
Flatten(calls) ==
    IF calls = << >> THEN << >> ELSE Head(calls) \o Flatten(Tail(calls))

\* C33: rebuild_vectors(batch_size), batch_size >= 1, over a log of L
\* records makes exactly ceil(L / batch_size) calls of get_embeddings, one
\* per batch, whatever the answers; the batches are consecutive slices of
\* the log of 1 to batch_size records that together hold every record
\* once; and the records of a batch that is answered in full after a batch
\* that failed have their entries in the index.
C33_RebuildBatches ==
    Readable =>
    \A self \in Instances, batch_size \in BatchSizes :
    \A responses \in [1..NumBatches(Len(Log), batch_size) -> Responses(batch_size)] :
        LET L == Len(Log)
            calls == rebuild_calls(Log, batch_size, responses, 1)
            r == rebuild_vectors(store, self, batch_size, responses)
            full(b) == /\ responses[b].ok
                       /\ Len(responses[b].data) = Len(calls[b])
        IN  /\ Len(calls) * batch_size >= L
            /\ (Len(calls) - 1) * batch_size < L \/ (L = 0 /\ calls = << >>)
            /\ \A b \in 1..Len(calls) : Len(calls[b]) \in 1..batch_size
            /\ Flatten(calls) = [i \in 1..L |-> Log[i].text]
            /\ r.ret.exc = "none"
            /\ enabled(self) =>
                  \A i \in 1..L :
                      full((i - 1) \div batch_size + 1) =>
                          VectorOf(load_vectors(r.s), Log[i].id) # None

\* the case of C33: rebuild_vectors(1) over two records has had its first
\* batch fail and its second answered, and the index holds one entry
C33_Witness ==
    /\ last.op = "rebuild_vectors"
    /\ last.args.batch_size = 1
    /\ Len(last.args.responses) = 2
    /\ ~last.args.responses[1].ok
    /\ last.args.responses[2].ok
    /\ last.ret = Ok(1)
    /\ VecLen = 1

\* the final score keyword search gives the record e among entries
ScoreOf(self, entries, e) ==
    LET docs == [k \in 1..Len(entries) |-> doc_tokens(entries[k])]
        i == CHOOSE k \in 1..Len(entries) : entries[k] = e
    IN  final_score(self, entries, docs, i, Range(tokenize(<<97>>)), now)

\* C34: the output of keyword search is in non-increasing order of final
\* score, and candidates of equal final score stand in their order in the
\* candidate sequence; with decay_lambda = 0 two matching records with the
\* same tokens and the same importance are returned in insertion order.
C34_StableDescending ==
    Readable =>
    \A self \in RankInstances, entries \in { Log, Reverse(Log) } :
        LET r == keyword_search(self, <<97>>, entries, Len(entries), now) IN
        /\ \A p, q \in 1..Len(r) :
              p < q =>
                /\ ScoreOf(self, entries, r[p]) >= ScoreOf(self, entries, r[q])
                /\ ScoreOf(self, entries, r[p]) = ScoreOf(self, entries, r[q]) =>
                     \E i, j \in 1..Len(entries) :
                         i < j /\ entries[i] = r[p] /\ entries[j] = r[q]
        /\ self.time_decay_lambda = 0 =>
              \A i, j \in 1..Len(entries) :
                  ( /\ i < j
                    /\ Matches(<<97>>, entries[i])
                    /\ SameTokens(entries[i], entries[j])
                    /\ entries[i].importance = entries[j].importance )
                  => \E p, q \in 1..Len(r) :
                         p < q /\ r[p] = entries[i] /\ r[q] = entries[j]

\* the case of C34: two different records "a" of the same importance, the
\* second added a day after the first, tie with the decay switched off and
\* are returned in log order, while the default decay puts the later first
C34_Witness ==
    /\ Readable
    /\ Len(Log) = 2
    /\ Log[1].timestamp < Log[2].timestamp
    /\ Log[1].importance = Log[2].importance
    /\ \E self, other \in RankInstances :
          /\ self.time_decay_lambda = 0
          /\ ScoreOf(self, Log, Log[1]) = ScoreOf(self, Log, Log[2])
          /\ keyword_search(self, <<97>>, Log, 2, now) = Log
          /\ keyword_search(other, <<97>>, Log, 2, now) = Reverse(Log)

====
